---- MODULE Spec2Model ----
(***************************************************************************)
(* feedme: a resumable crawl of saved eBay searches merged into an Atom     *)
(* feed (src/feedme.py, src/config.py).                                     *)
(*                                                                          *)
(* Strings are modelled as sequences of one-character strings where the     *)
(* code inspects their characters (item ids, entry ids), and as records     *)
(* of their parsed parts where the code parses them (search URLs).          *)
(* Instants are whole days.                                                 *)
(***************************************************************************)
EXTENDS Integers, Sequences, FiniteSets, TLC

(* ------------------------------------------------------------------ *)
(* Configuration (src/config.py) and program constants                 *)
(* ------------------------------------------------------------------ *)

\* Config.MAX_FEED_ENTRIES: read from the environment (default 1000); the
\* model runs with a small configured value.
MAX_FEED_ENTRIES == 3

\* Config.MAX_LISTING_AGE_DAYS: read from the environment (default 84); the
\* model runs with a small configured value.
MAX_LISTING_AGE_DAYS == 2

ITEMS_PAGE_SIZE == 200

\* call_api gives up when tries > 10
MAX_TRIES == 10

\* time.sleep(60) before call_api tries again
RETRY_PAUSE_SECONDS == 60

\* Python's None where a search URL is expected (checkpoint, next_url,
\* last_url): a value of the URLs' shape that is no URL
None == [parts |-> <<>>, nkw |-> "", prefLoc |-> "None"]

(* ------------------------------------------------------------------ *)
(* Bounds of the model                                                 *)
(* ------------------------------------------------------------------ *)

\* number of items the upstream API puts in one response page
PageItems == 1

\* number of runs of main() in one behaviour
MaxRuns == 2

\* the clock (in days) stops advancing at this value
MaxNow == 5

\* number of upstream failures (non-quota error statuses and transport
\* errors) in one behaviour
MaxFailures == 1

\* number of runs of one behaviour that the quota or the time budget halts
MaxHalts == 1

\* number of runs of one behaviour that crash while they write the feed
MaxCrashes == 1

(* ------------------------------------------------------------------ *)
(* Strings                                                             *)
(* ------------------------------------------------------------------ *)

Digits == {"0", "1", "2", "3", "4", "5", "6", "7", "8", "9"}

\* urllib.parse.quote on one character: the characters of the model that
\* are not in quote's safe set are percent-encoded
QuoteChar(c) == IF c = "|" THEN <<"%", "7", "C">> ELSE <<c>>

RECURSIVE quote(_)
quote(s) == IF s = <<>> THEN <<>> ELSE QuoteChar(Head(s)) \o quote(Tail(s))

\* the literal prefix of the tag URI, kept as one token
TagPrefix == "tag:feedme.aeshin.org,2022:item-"

\* f"tag:feedme.aeshin.org,2022:item-{listing.id}"
EntryId(listing_id) == <<TagPrefix>> \o listing_id

\* the longest prefix of s made of digits: what (\d+) captures
RECURSIVE LeadingDigits(_)
LeadingDigits(s) ==
    IF s = <<>> \/ Head(s) \notin Digits THEN <<>>
    ELSE <<Head(s)>> \o LeadingDigits(Tail(s))

\* parse_listing_id: tag_uri.match(entry_id) anchors at the start only and
\* returns group 1, or None (here <<>>: \d+ never captures the empty string)
parse_listing_id(entry_id) ==
    IF entry_id # <<>> /\ Head(entry_id) = TagPrefix
    THEN LeadingDigits(Tail(entry_id))
    ELSE <<>>

(* ------------------------------------------------------------------ *)
(* Search URLs and the Query Translator                                *)
(* ------------------------------------------------------------------ *)

\* A search URL is kept as urlparse/parse_qs see it: the path split at "/"
\* and the first LH_PrefLoc value ("" when the parameter is absent).
UA == [parts |-> <<"", "sch", "i.html">>, nkw |-> "a", prefLoc |-> ""]
UB == [parts |-> <<"", "sch", "Records", "176985", "i.html">>, nkw |-> "b", prefLoc |-> "1"]
UC == [parts |-> <<"", "sch", "i.html">>, nkw |-> "c", prefLoc |-> "2"]
\* a path with four parts: add_category raises
UBad == [parts |-> <<"", "sch", "x", "i.html">>, nkw |-> "a", prefLoc |-> ""]
\* an item page, not a search page
UItm == [parts |-> <<"", "itm", "1">>, nkw |-> "", prefLoc |-> ""]

Last(s) == s[Len(s)]

\* parse_search_params raises BadSearchURLException
BadSearchURL(url) ==
    \/ Last(url.parts) # "i.html"
    \/ Len(url.parts) \notin {3, 5}
    \/ url.prefLoc \notin {"", "1", "2", "3"}

(* ------------------------------------------------------------------ *)
(* The upstream API (the service behind client.get in call_api)        *)
(* ------------------------------------------------------------------ *)

\* item ids: numeric, "v1|1" (no digit in front), "1|2" (digits, then more)
N1 == <<"1">>
N2 == <<"2">>
N3 == <<"3">>
N4 == <<"4">>
N5 == <<"5">>
V1 == <<"v", "1", "|", "1">>
M1 == <<"1", "|", "2">>

Item(id, t) == [itemId |-> id, itemCreationDate |-> t]

\* the listings matching each search, newest first (sort=newlyListed); a
\* listing exists upstream from its creation day on, and a listing that
\* matches two searches is the same item in both
Upstream(url) ==
    IF url = UA THEN <<Item(M1, 3), Item(N1, 3), Item(V1, 2)>>
    ELSE IF url = UB THEN <<Item(N2, 3), Item(N1, 3), Item(N3, 2)>>
    ELSE IF url = UC THEN <<Item(N4, 4), Item(M1, 3), Item(N5, 1)>>
    ELSE <<>>

Min(a, b) == IF a < b THEN a ELSE b

\* what the API finds for a search with filter itemStartDate:[since] at
\* time t
Results(url, since, t) ==
    LET Test(x) == x.itemCreationDate >= since /\ x.itemCreationDate <= t
    IN  SelectSeq(Upstream(url), Test)

\* the response to a request at an offset: the items of that page, the
\* offset echoed back, and "next" present when more pages follow
Response(url, since, offset, t) ==
    LET all  == Results(url, since, t)
        page == offset \div ITEMS_PAGE_SIZE
        lo   == page * PageItems + 1
        hi   == Min(Len(all), (page + 1) * PageItems)
    IN  [itemSummaries |-> IF lo > hi THEN <<>> ELSE SubSeq(all, lo, hi),
         offset        |-> offset,
         next          |-> Len(all) > (page + 1) * PageItems]

(* ------------------------------------------------------------------ *)
(* Listings and feed entries                                           *)
(* ------------------------------------------------------------------ *)

\* AtomEntry.updated is None
NoTime == 0

\* item_to_listing: id = quote(itemId), age_in_days = (now() - start_time).days
item_to_listing(item, url, t) ==
    [id          |-> quote(item.itemId),
     start_time  |-> item.itemCreationDate,
     age_in_days |-> t - item.itemCreationDate,
     url         |-> url]

\* include_in_feed
include_in_feed(listing, ids) ==
    /\ listing.id \notin ids
    /\ listing.age_in_days <= MAX_LISTING_AGE_DAYS

\* the entry main() adds for a listing (lines 437-442)
new_entry(listing) ==
    [id |-> EntryId(listing.id), updated |-> listing.start_time]

\* copy_entry: id, title, link and content as they are; updated or now()
copy_entry(entry, t) ==
    [id |-> entry.id, updated |-> IF entry.updated = NoTime THEN t ELSE entry.updated]

\* copy_remaining_entries: the entries it appends to fg
RECURSIVE copy_remaining_entries(_, _, _, _)
copy_remaining_entries(entries, count, ids, t) ==
    IF entries = <<>> THEN <<>>
    ELSE LET listing_id == parse_listing_id(Head(entries).id)
         IN  IF count < MAX_FEED_ENTRIES
             THEN IF listing_id # <<>> /\ listing_id \notin ids
                  THEN <<copy_entry(Head(entries), t)>>
                           \o copy_remaining_entries(Tail(entries), count + 1, ids, t)
                  ELSE copy_remaining_entries(Tail(entries), count, ids, t)
             ELSE <<>>

\* main() lines 409-415: the newest entry.updated, floored at now - 1 day
RECURSIVE newest_updated(_, _)
newest_updated(entries, floor) ==
    IF entries = <<>> THEN floor
    ELSE newest_updated(Tail(entries),
                        IF Head(entries).updated # NoTime /\ Head(entries).updated > floor
                        THEN Head(entries).updated ELSE floor)

(* ------------------------------------------------------------------ *)
(* State                                                               *)
(* ------------------------------------------------------------------ *)

VARIABLES
    search_urls,    \* the query list main() assembles (lines 424-429)
    minutes,        \* args.minutes is set to a positive number
    now,            \* the clock, in days
    feed,           \* the entries of the feed file (<<>> when it is absent)
    feed_new,       \* the content of the file f"{args.feed}.new" (<<>> when absent)
    crashes,        \* number of runs that crashed so far
    checkpoint,     \* the content of next-url.pickle, None when it is absent
    pc,             \* where the run is
    existing_feed,  \* main(): the entries read at startup
    last_updated,   \* main(): the "since" lower bound of the run
    fg,             \* main(): the entries added to the FeedGenerator
    entry_count,    \* main()
    listing_ids,    \* main()
    i,              \* get_listings: position in search_urls (0 before the loop)
    next_url,       \* get_listings
    last_url,       \* get_listings
    offset,         \* get_results: search_params["offset"] (0 when not set)
    response,       \* get_results: the response being iterated
    tries,          \* call_api
    paused,         \* seconds call_api slept at line 146 in this invocation
    failures,       \* number of upstream failures so far
    halts,          \* number of quota and time-budget halts so far
    runs,           \* number of runs started
    requests,       \* the calls of call_api in this run: <<position, offset, outcome>>
    emitted,        \* the listings get_listings yielded in this run, with their position
    halt,           \* how the crawl of this run ended
    ckpt_op,        \* what this run did to the checkpoint file
    resumed_from,   \* the checkpoint this run loaded
    prev            \* the record of the run before this one

vars == <<search_urls, minutes, now, feed, feed_new, crashes, checkpoint, pc, existing_feed,
          last_updated, fg, entry_count, listing_ids, i, next_url, last_url,
          offset, response, tries, paused, failures, halts, runs, requests, emitted,
          halt, ckpt_op, resumed_from, prev>>

main_vars    == <<existing_feed, last_updated, fg, entry_count, listing_ids>>
crawl_vars   == <<i, next_url, last_url>>
page_vars    == <<offset, response, tries>>
file_vars    == <<feed, checkpoint>>
crash_vars   == <<feed_new, crashes>>
input_vars   == <<search_urls, minutes>>
history_vars == <<requests, emitted, halt, ckpt_op, resumed_from, prev>>

NoResponse == [itemSummaries |-> <<>>, offset |-> 0, next |-> FALSE]

NoRun == [ran |-> FALSE, halt |-> "none", since |-> 0, emitted |-> <<>>,
          i |-> 0, resumed_from |-> None, feed |-> <<>>, ckpt_op |-> "none",
          day |-> 0, failures |-> 0]

\* the query lists of the model
QueryLists ==
    { <<UA>>,
      <<UA, UB, UC>>,
      <<UB, UA, UB>>,
      <<UBad, UA, UB, UBad, UC>> }

Entry(id, t) == [id |-> EntryId(quote(id)), updated |-> t]

\* the feed files a first run may find
InitFeeds ==
    { <<>>,
      <<Entry(N2, 3), Entry(N3, 2)>> }

\* the first day of the model
FirstDay == 3

\* before the first run: the inputs and the two files are chosen, nothing
\* has run
Start(lists, checkpoints) ==
    /\ search_urls \in lists
    /\ minutes \in BOOLEAN
    /\ now = FirstDay
    /\ feed \in InitFeeds
    /\ feed_new = <<>>
    /\ crashes = 0
    /\ checkpoint \in checkpoints
    /\ pc = "idle"
    /\ existing_feed = <<>>
    /\ last_updated = 0
    /\ fg = <<>>
    /\ entry_count = 0
    /\ listing_ids = {}
    /\ i = 0
    /\ next_url = None
    /\ last_url = None
    /\ offset = 0
    /\ response = NoResponse
    /\ tries = 0
    /\ paused = 0
    /\ failures = 0
    /\ halts = 0
    /\ runs = 0
    /\ requests = <<>>
    /\ emitted = <<>>
    /\ halt = "none"
    /\ ckpt_op = "none"
    /\ resumed_from = None
    /\ prev = NoRun

Init == Start(QueryLists, {None, UB, UItm})

(* ------------------------------------------------------------------ *)
(* main(): startup                                                     *)
(* ------------------------------------------------------------------ *)

\* main() up to the first next() on get_listings, and get_listings up to its
\* loop: read the feed, compute last_updated, load the checkpoint
StartRun ==
    /\ pc = "idle"
    /\ runs < MaxRuns
    /\ runs' = runs + 1
    /\ existing_feed' = feed
    /\ last_updated' = newest_updated(feed, now - 1)
    /\ fg' = <<>>
    /\ entry_count' = 0
    /\ listing_ids' = {}
    /\ i' = 0
    /\ last_url' = None
    /\ next_url' = checkpoint
    /\ resumed_from' = checkpoint
    /\ requests' = <<>>
    /\ emitted' = <<>>
    /\ halt' = "none"
    /\ ckpt_op' = "none"
    /\ pc' = "loop"
    /\ UNCHANGED <<input_vars, crash_vars, paused, now, file_vars, page_vars, failures, halts, prev>>

(* ------------------------------------------------------------------ *)
(* get_listings                                                        *)
(* ------------------------------------------------------------------ *)

\* a finally clause that saves nothing
save_nothing(url, file) == file

\* the finally clause of get_listings: the checkpoint file after it
finally_save(url, file) == IF url # None THEN url ELSE file

\* the generator ends with last_url = url: by an exception caught at line
\* 323, or by GeneratorExit when main() drops it
Stop(how, url) ==
    /\ checkpoint' = finally_save(url, checkpoint)
    /\ ckpt_op' = IF url # None THEN "save" ELSE ckpt_op
    /\ halt' = how
    /\ pc' = "merge"

\* a loop head that skips nothing
skip_never(url, next) == FALSE

\* lines 299-305: the query is skipped
skip_until_next_url(url, next) == next # None /\ url # next

\* loop head, lines 296-305: "continue"
SkipQuery ==
    /\ pc = "loop"
    /\ i < Len(search_urls)
    /\ skip_until_next_url(search_urls[i + 1], next_url)
    /\ i' = i + 1
    /\ last_url' = search_urls[i + 1]
    /\ UNCHANGED <<input_vars, crash_vars, paused, now, file_vars, pc, main_vars, next_url, page_vars,
                   failures, halts, runs, history_vars>>

\* loop head, lines 296-302, and get_results up to its first call_api (lines
\* 206-209); BadSearchURLException is caught at line 312
BeginQuery ==
    /\ pc = "loop"
    /\ i < Len(search_urls)
    /\ ~skip_until_next_url(search_urls[i + 1], next_url)
    /\ i' = i + 1
    /\ last_url' = search_urls[i + 1]
    /\ next_url' = None
    /\ offset' = 0
    /\ tries' = 0
    /\ paused' = 0
    /\ response' = NoResponse
    /\ pc' = IF BadSearchURL(search_urls[i + 1]) THEN "timecheck" ELSE "call"
    /\ UNCHANGED <<input_vars, crash_vars, now, file_vars, main_vars, failures, halts, runs, history_vars>>

\* the end of the loop without "last_url = None": the finally clause saves
\* the last query after clear_next_url
Complete_keeps_last_url ==
    /\ pc = "loop"
    /\ i = Len(search_urls)
    /\ checkpoint' = finally_save(last_url, None)
    /\ ckpt_op' = IF last_url # None THEN "save" ELSE "clear"
    /\ halt' = "completed"
    /\ pc' = "merge"
    /\ UNCHANGED <<input_vars, crash_vars, paused, now, feed, main_vars, i, next_url, last_url, page_vars,
                   failures, halts, runs, requests, emitted, resumed_from, prev>>

\* lines 319-321: the loop ran to its end; the finally clause has nothing
\* to save
Complete ==
    /\ pc = "loop"
    /\ i = Len(search_urls)
    /\ checkpoint' = None
    /\ ckpt_op' = "clear"
    /\ last_url' = None
    /\ halt' = "completed"
    /\ pc' = "merge"
    /\ UNCHANGED <<input_vars, crash_vars, paused, now, feed, main_vars, i, next_url, page_vars,
                   failures, halts, runs, requests, emitted, resumed_from, prev>>

\* a time check that lets the run end when the list is exhausted
TimeLimit_not_after_last ==
    /\ pc = "timecheck"
    /\ minutes
    /\ halts < MaxHalts
    /\ i < Len(search_urls)
    /\ halts' = halts + 1
    /\ Stop("time", last_url)
    /\ UNCHANGED <<input_vars, crash_vars, paused, now, feed, main_vars, crawl_vars, page_vars,
                   failures, runs, requests, emitted, resumed_from, prev>>

\* lines 315-317: the budget is exceeded
TimeLimit ==
    /\ pc = "timecheck"
    /\ minutes
    /\ halts < MaxHalts
    /\ halts' = halts + 1
    /\ Stop("time", last_url)
    /\ UNCHANGED <<input_vars, crash_vars, paused, now, feed, main_vars, crawl_vars, page_vars,
                   failures, runs, requests, emitted, resumed_from, prev>>

\* lines 315-317: no budget, or the budget is not exceeded
TimeOk ==
    /\ pc = "timecheck"
    /\ pc' = "loop"
    /\ UNCHANGED <<input_vars, crash_vars, paused, now, file_vars, main_vars, crawl_vars, page_vars,
                   failures, halts, runs, history_vars>>

(* ------------------------------------------------------------------ *)
(* call_api                                                            *)
(* ------------------------------------------------------------------ *)

\* the log of call_api's calls: "ok" (a response is returned), "quota"
\* (TooManyAPICallsException) or "error" (APIException)
Logged(outcome) == Append(requests, <<i, offset, outcome>>)

\* status 200: the response is returned to get_results
ApiOk ==
    /\ pc = "call"
    /\ response' = Response(search_urls[i], last_updated, offset, now)
    /\ requests' = Logged("ok")
    /\ pc' = "items"
    /\ UNCHANGED <<input_vars, crash_vars, paused, now, file_vars, main_vars, crawl_vars, offset, tries,
                   failures, halts, runs, emitted, halt, ckpt_op, resumed_from, prev>>

\* lines 122-130: error 2001 of category REQUEST; TooManyAPICallsException
\* passes get_results and line 312 and is caught at line 323
ApiQuota ==
    /\ pc = "call"
    /\ halts < MaxHalts
    /\ halts' = halts + 1
    /\ requests' = Logged("quota")
    /\ Stop("quota", last_url)
    /\ UNCHANGED <<input_vars, crash_vars, paused, now, feed, main_vars, crawl_vars, page_vars,
                   failures, runs, emitted, resumed_from, prev>>

\* APIException handled like TooManyAPICallsException
ApiError_halts ==
    /\ pc = "call"
    /\ failures < MaxFailures
    /\ failures' = failures + 1
    /\ requests' = Logged("error")
    /\ Stop("quota", last_url)
    /\ UNCHANGED <<input_vars, crash_vars, paused, now, feed, main_vars, crawl_vars, page_vars,
                   halts, runs, emitted, resumed_from, prev>>

\* line 133: any other status; APIException is caught at line 312
ApiError ==
    /\ pc = "call"
    /\ failures < MaxFailures
    /\ failures' = failures + 1
    /\ requests' = Logged("error")
    /\ pc' = "timecheck"
    /\ UNCHANGED <<input_vars, crash_vars, paused, now, file_vars, main_vars, crawl_vars, page_vars,
                   halts, runs, emitted, halt, ckpt_op, resumed_from, prev>>

\* a call_api that gives up one request sooner
gives_up_sooner(t) == t >= MAX_TRIES

\* line 143
gives_up(t) == t > MAX_TRIES

\* lines 141-146: httpx.RequestError; sleep and try again, or APIException
\* after the eleventh
RequestError ==
    /\ pc = "call"
    /\ tries > 0 \/ failures < MaxFailures
    /\ failures' = IF tries = 0 THEN failures + 1 ELSE failures
    /\ tries' = tries + 1
    /\ pc' = IF gives_up(tries + 1) THEN "timecheck" ELSE "call"
    /\ requests' = IF gives_up(tries + 1) THEN Logged("error") ELSE requests
    /\ paused' = IF gives_up(tries + 1) THEN paused ELSE paused + RETRY_PAUSE_SECONDS
    /\ UNCHANGED <<input_vars, crash_vars, now, file_vars, main_vars, crawl_vars, offset, response,
                   halts, runs, emitted, halt, ckpt_op, resumed_from, prev>>

(* ------------------------------------------------------------------ *)
(* get_results, and the body of main()'s loop                          *)
(* ------------------------------------------------------------------ *)

\* a loop that ends when the count reaches the maximum
cap_reached(count) == count >= MAX_FEED_ENTRIES

\* line 445
cap_exceeded(count) == count > MAX_FEED_ENTRIES

\* the listing get_listings yields next (lines 212-213, 309-311)
NextListing == item_to_listing(Head(response.itemSummaries), search_urls[i], now)

Included == include_in_feed(NextListing, listing_ids)

\* lines 435-444: what main() does with the listing
Consume ==
    /\ emitted' = Append(emitted, [listing |-> NextListing, q |-> i])
    /\ response' = [response EXCEPT !.itemSummaries = Tail(@)]
    /\ IF Included
       THEN /\ listing_ids' = listing_ids \cup {NextListing.id}
            /\ fg' = Append(fg, new_entry(NextListing))
            /\ entry_count' = entry_count + 1
       ELSE UNCHANGED <<listing_ids, fg, entry_count>>

\* one item is yielded, main() takes it and asks for the next
EmitListing ==
    /\ pc = "items"
    /\ response.itemSummaries # <<>>
    /\ ~(Included /\ cap_exceeded(entry_count + 1))
    /\ Consume
    /\ UNCHANGED <<input_vars, crash_vars, paused, now, file_vars, pc, existing_feed, last_updated,
                   crawl_vars, offset, tries, failures, halts, runs, requests, halt, ckpt_op,
                   resumed_from, prev>>

\* a break that leaves the suspended generator as it is: no cleanup runs
EmitAndBreak_no_cleanup ==
    /\ pc = "items"
    /\ response.itemSummaries # <<>>
    /\ Included /\ cap_exceeded(entry_count + 1)
    /\ Consume
    /\ halt' = "cap"
    /\ pc' = "merge"
    /\ UNCHANGED <<input_vars, crash_vars, paused, now, file_vars, ckpt_op, existing_feed,
                   last_updated, crawl_vars, offset, tries, failures, halts, runs, requests,
                   resumed_from, prev>>

\* one item is yielded, main() takes it and breaks (line 446): the
\* suspended generator is dropped and closed, GeneratorExit is raised at the
\* yield and the finally clause runs
EmitAndBreak ==
    /\ pc = "items"
    /\ response.itemSummaries # <<>>
    /\ Included /\ cap_exceeded(entry_count + 1)
    /\ Consume
    /\ Stop("cap", last_url)
    /\ UNCHANGED <<input_vars, crash_vars, paused, now, feed, existing_feed, last_updated,
                   crawl_vars, offset, tries, failures, halts, runs, requests,
                   resumed_from, prev>>

\* an offset that does not advance
same_offset(r) == r.offset

\* line 215
next_offset(r) == r.offset + ITEMS_PAGE_SIZE

\* lines 214-215: the response has "next"
NextPage ==
    /\ pc = "items"
    /\ response.itemSummaries = <<>>
    /\ response.next
    /\ offset' = next_offset(response)
    /\ tries' = 0
    /\ paused' = 0
    /\ pc' = "call"
    /\ UNCHANGED <<input_vars, crash_vars, now, file_vars, main_vars, crawl_vars, response,
                   failures, halts, runs, history_vars>>

\* lines 216-217: no "next": get_results ends
LastPage ==
    /\ pc = "items"
    /\ response.itemSummaries = <<>>
    /\ ~response.next
    /\ pc' = "timecheck"
    /\ UNCHANGED <<input_vars, crash_vars, paused, now, file_vars, main_vars, crawl_vars, page_vars,
                   failures, halts, runs, history_vars>>

(* ------------------------------------------------------------------ *)
(* main(): merge and write                                             *)
(* ------------------------------------------------------------------ *)

\* a feed file without the entries of this run
merged_feed_old_only ==
    copy_remaining_entries(existing_feed, entry_count, listing_ids, now)

\* a feed file with the entries of the previous feed first
merged_feed_old_first ==
    copy_remaining_entries(existing_feed, entry_count, listing_ids, now) \o fg

\* lines 450-452: the entries of the new feed file
merged_feed == fg \o copy_remaining_entries(existing_feed, entry_count, listing_ids, now)

\* args.feed
TargetPath == "feed"

\* a write that goes to the feed file itself
InPlacePath == "feed"

\* f"{args.feed}.new"
TempPath == "new"

\* the two files, by path
Files == [feed |-> feed, new |-> feed_new]

\* fg.atom_file(path): the file at path holds content
atom_file(path, content, files) == [files EXCEPT ![path] = content]

\* os.rename(src, dst): dst is replaced in one step, src is gone
rename(src, dst, files) ==
    IF src = dst THEN files ELSE [files EXCEPT ![dst] = files[src], ![src] = <<>>]

\* the record of a run, kept for the next one
RunRecord(how) ==
    [ran |-> TRUE, halt |-> how, since |-> last_updated,
     emitted |-> emitted, i |-> i, resumed_from |-> resumed_from,
     feed |-> existing_feed, ckpt_op |-> ckpt_op, day |-> now,
     failures |-> failures]

\* lines 450-452, all of them
WriteFeed ==
    /\ pc = "merge"
    /\ LET after == rename(TempPath, TargetPath, atom_file(TempPath, merged_feed, Files))
       IN  /\ feed' = after[TargetPath]
           /\ feed_new' = after[TempPath]
    /\ prev' = RunRecord(halt)
    /\ pc' = "idle"
    /\ UNCHANGED <<input_vars, crashes, paused, now, checkpoint, main_vars, crawl_vars, page_vars,
                   failures, halts, runs, requests, emitted, halt, ckpt_op, resumed_from>>

Prefixes(s) == {SubSeq(s, 1, n) : n \in 0 .. Len(s)}

\* the process dies in line 451 or between lines 451 and 452: atom_file has
\* written some of the entries, or all of them, and os.rename has not run
CrashInWrite ==
    /\ pc = "merge"
    /\ crashes < MaxCrashes
    /\ crashes' = crashes + 1
    /\ \E part \in Prefixes(merged_feed) :
           LET after == atom_file(TempPath, part, Files)
           IN  /\ feed' = after[TargetPath]
               /\ feed_new' = after[TempPath]
    /\ prev' = RunRecord("crash")
    /\ pc' = "idle"
    /\ UNCHANGED <<input_vars, paused, now, checkpoint, main_vars, crawl_vars, page_vars,
                   failures, halts, runs, requests, emitted, halt, ckpt_op, resumed_from>>

(* ------------------------------------------------------------------ *)
(* The clock                                                           *)
(* ------------------------------------------------------------------ *)

\* a day passes between two runs
Tick ==
    /\ pc = "idle"
    /\ now < MaxNow
    /\ now' = now + 1
    /\ UNCHANGED <<input_vars, crash_vars, paused, file_vars, pc, main_vars, crawl_vars, page_vars,
                   failures, halts, runs, history_vars>>

\* a day passes while call_api sleeps before it tries again (line 146)
SleepDay ==
    /\ pc = "call"
    /\ tries > 0
    /\ now < MaxNow
    /\ now' = now + 1
    /\ UNCHANGED <<input_vars, crash_vars, paused, file_vars, pc, main_vars, crawl_vars, page_vars,
                   failures, halts, runs, history_vars>>

Next ==
    \/ StartRun
    \/ SkipQuery
    \/ BeginQuery
    \/ Complete
    \/ TimeLimit
    \/ TimeOk
    \/ ApiOk
    \/ ApiQuota
    \/ ApiError
    \/ EmitListing
    \/ EmitAndBreak
    \/ NextPage
    \/ LastPage
    \/ WriteFeed
    \/ Tick

\* Runs that take less than a day each. call_api is taken as a whole: ApiError
\* stands for every way it raises APIException (line 133 or line 144).
Spec == Init /\ [][Next]_vars

\* The same with call_api's attempts taken one by one, and with time passing
\* while it sleeps, from fewer initial states.
InitRetry == Start({<<UBad, UA, UB, UBad, UC>>}, {None}) /\ minutes

NextRetry ==
    \/ Next
    \/ RequestError
    \/ SleepDay

SpecRetry == InitRetry /\ [][NextRetry]_vars

\* The same as Spec with runs that may die while they write the feed, from
\* fewer initial states.
InitCrash == Start({<<UA, UB, UC>>}, {None})

NextCrash ==
    \/ Next
    \/ CrashInWrite

SpecCrash == InitCrash /\ [][NextCrash]_vars

(* ------------------------------------------------------------------ *)
(* Properties                                                          *)
(* ------------------------------------------------------------------ *)

Range(f) == {f[x] : x \in DOMAIN f}

Positions == 1 .. Len(search_urls)

\* the first position of the query list that holds url
FirstMatch(url) ==
    CHOOSE k \in Positions :
        search_urls[k] = url /\ \A j \in 1 .. k - 1 : search_urls[j] # url

\* the run is done with the query at position p
Finished(p) == i > p \/ (i = p /\ pc \in {"timecheck", "loop", "merge", "idle"})

\* call_api was called for the query at position p
Requested(p) == \E j \in 1 .. Len(requests) : requests[j][1] = p

\* the run resumes at position k: no call for a query before k; every query
\* starts at its first page; calls follow the list order; no query from k
\* on is left out
ResumesAt(k) ==
    /\ \A j \in 1 .. Len(requests) : requests[j][1] >= k
    /\ \A j \in 1 .. Len(requests) :
           (j = 1 \/ requests[j - 1][1] # requests[j][1]) => requests[j][2] = 0
    /\ \A j \in 1 .. Len(requests) - 1 : requests[j][1] <= requests[j + 1][1]
    /\ \A p \in k .. Len(search_urls) :
           (Finished(p) /\ ~BadSearchURL(search_urls[p])) => Requested(p)

\* C1 as stated: a run that starts with the checkpoint equal to the
\* specification at position k calls the API for no query before k,
\* processes query k from its first page, then the queries after k in list
\* order -- for every position k that holds that specification.
C1_ResumeAtAnyPosition ==
    \A k \in Positions :
        (resumed_from # None /\ search_urls[k] = resumed_from) => ResumesAt(k)

\* C1 amended: the same, for the first position k of the list that holds the
\* checkpointed specification.
C1_ResumeAtFirstMatch ==
    (resumed_from # None /\ resumed_from \in Range(search_urls))
        => ResumesAt(FirstMatch(resumed_from))

\* a run resumed at the third of five queries has processed queries 3 and 5
\* and ended
C1_Witness ==
    /\ search_urls = <<UBad, UA, UB, UBad, UC>>
    /\ resumed_from = UB
    /\ halt = "completed"
    /\ pc = "merge"
    /\ Requested(3) /\ Requested(5) /\ ~Requested(2)
    /\ Len(requests) >= 3

\* C2: when call_api raises TooManyAPICallsException in a page request of
\* query k, that request is the last of the run, the run goes on to write
\* its feed (the exception does not leave get_listings), and the checkpoint
\* file holds the specification of query k.
C2_QuotaCheckpointsQueryInProgress ==
    halt = "quota" =>
        /\ pc \in {"merge", "idle"}
        /\ requests # <<>>
        /\ Last(requests) = <<i, offset, "quota">>
        /\ \A j \in 1 .. Len(requests) - 1 : requests[j][3] # "quota"
        /\ ckpt_op = "save"
        /\ checkpoint = search_urls[i]

\* the quota is exceeded at the second page of the second query
C2_Witness ==
    /\ halt = "quota"
    /\ pc = "idle"
    /\ i = 2
    /\ i < Len(search_urls)
    /\ Last(requests) = <<2, ITEMS_PAGE_SIZE, "quota">>
    /\ checkpoint = search_urls[2]
    /\ checkpoint # search_urls[3]

\* the listing ids a run emitted
EmittedIds(log) == {log[j].listing.id : j \in 1 .. Len(log)}

\* this run resumed from the checkpoint that the run before it, started
\* without a checkpoint, left when the quota or the time budget halted it;
\* it reached the end of the list; no call failed in either run and both ran
\* on the same day
ResumedAndCompleted ==
    /\ pc = "merge"
    /\ halt = "completed"
    /\ prev.ran
    /\ prev.halt \in {"quota", "time"}
    /\ prev.resumed_from = None
    /\ resumed_from = search_urls[prev.i]
    /\ failures = 0
    /\ now = prev.day

\* C3: across a run halted at query k and the run that resumes from its
\* checkpoint, every upstream listing that matches a query of the list and
\* started at or after the halted run's lower bound is emitted by one of the
\* two runs.
C3_NoListingSkipped ==
    ResumedAndCompleted =>
        \A p \in Positions :
            \A x \in Range(Upstream(search_urls[p])) :
                (x.itemCreationDate >= prev.since /\ x.itemCreationDate <= prev.day)
                    => quote(x.itemId) \in EmittedIds(prev.emitted) \cup EmittedIds(emitted)

\* a run has written the feed file and no other has started
Written == pc = "idle" /\ prev.ran

\* C4: the feed a run writes holds at most MAX_FEED_ENTRIES entries.
C4_FeedWithinMaximum == Written => Len(feed) <= MAX_FEED_ENTRIES

UniqueIds(entries) ==
    \A a, b \in DOMAIN entries : a # b => entries[a].id # entries[b].id

\* C5: when no two entries of the previous feed have the same identifier, no
\* two entries of the feed a run writes have the same identifier.
C5_NoDuplicateIdentifiers ==
    (Written /\ UniqueIds(prev.feed)) => UniqueIds(feed)

\* C6: the feed a run writes holds no entry whose listing is older, on the
\* day of the run, than MAX_LISTING_AGE_DAYS, be the entry new or carried
\* over.
C6_NoEntryOlderThanMaximum ==
    Written =>
        \A j \in DOMAIN feed : prev.day - feed[j].updated <= MAX_LISTING_AGE_DAYS

\* the entry of a listing is in a sequence of entries
HasEntry(entries, listing) ==
    \E n \in DOMAIN entries : entries[n] = new_entry(listing)

\* C7: a run that the quota or the time budget halts still writes the feed,
\* and the feed holds, first and in order, an entry for every listing
\* emitted before the halt that passed the inclusion predicate; the
\* checkpoint holds the query in progress.
C7_HaltedRunKeepsEmitted ==
    halt \in {"quota", "time"} =>
        /\ pc \in {"merge", "idle"}
        /\ checkpoint = search_urls[i]
        /\ entry_count <= MAX_FEED_ENTRIES
        /\ pc = "idle" =>
               /\ prev.ran
               /\ Len(feed) >= Len(fg)
               /\ SubSeq(feed, 1, Len(fg)) = fg
               /\ \A j \in 1 .. Len(emitted) :
                      emitted[j].listing.age_in_days <= MAX_LISTING_AGE_DAYS
                          => HasEntry(feed, emitted[j].listing)

\* no checkpoint, five queries, the quota exceeded in query 3 after two
\* listings were emitted: both are in the feed, the checkpoint is query 3
C7_Witness ==
    /\ Len(search_urls) = 5
    /\ resumed_from = None
    /\ halt = "quota"
    /\ pc = "idle"
    /\ i = 3
    /\ Len(emitted) = 2
    /\ emitted[1].listing.id # emitted[2].listing.id
    /\ HasEntry(feed, emitted[1].listing)
    /\ HasEntry(feed, emitted[2].listing)
    /\ checkpoint = search_urls[3]

\* the calls, and the listings emitted, for the query at position p
CallsAt(p) == SelectSeq(requests, LAMBDA r : r[1] = p)
EmittedAt(p) == SelectSeq(emitted, LAMBDA e : e.q = p)

\* the number of pages the upstream API splits n results into
PageCount(n) == IF n = 0 THEN 1 ELSE (n + PageItems - 1) \div PageItems

\* get_results has ended after a response without "next"
QueryDone ==
    /\ pc = "timecheck"
    /\ requests # <<>>
    /\ Last(requests)[1] = i
    /\ Last(requests)[3] = "ok"

StartPosition ==
    IF resumed_from = None THEN 1
    ELSE IF resumed_from \in Range(search_urls) THEN FirstMatch(resumed_from)
    ELSE Len(search_urls) + 1

\* the checkpoint file is as the run found it
CheckpointUntouched == ckpt_op = "none" /\ checkpoint = resumed_from

\* C9: a BadSearchURLException or an APIException in query k ends that query
\* only: no further page of k is requested, the run is not halted and the
\* checkpoint is not written by it, the entries of the listings already
\* emitted for k stay, and the queries after k are processed.
C9_ErrorAbandonsOnlyItsQuery ==
    /\ \A j \in 1 .. Len(requests) :
           requests[j][3] = "error" =>
               /\ j < Len(requests) => requests[j + 1][1] > requests[j][1]
               /\ j = Len(requests) =>
                      /\ halt \in {"none", "time", "completed"}
                      /\ halt = "none" => CheckpointUntouched
                      /\ i = requests[j][1] => pc \in {"timecheck", "loop", "merge", "idle"}
               /\ halt = "completed" =>
                      \A p \in requests[j][1] + 1 .. Len(search_urls) :
                          ~BadSearchURL(search_urls[p]) => Requested(p)
               /\ \A n \in 1 .. Len(emitted) :
                      (emitted[n].q = requests[j][1] /\ pc # "idle"
                           /\ emitted[n].listing.age_in_days <= MAX_LISTING_AGE_DAYS)
                          => HasEntry(fg, emitted[n].listing)
    /\ \A p \in Positions :
           (BadSearchURL(search_urls[p]) /\ i = p /\ pc = "timecheck")
               => (~Requested(p) /\ halt = "none" /\ CheckpointUntouched)
    /\ \A p \in StartPosition .. Len(search_urls) :
           (BadSearchURL(search_urls[p]) /\ halt = "completed")
               => \A q \in p + 1 .. Len(search_urls) :
                      ~BadSearchURL(search_urls[q]) => Requested(q)

\* the second page of query 2 failed after a listing of query 2 was taken;
\* queries 3 and 5 were processed and the run reached the end of the list
C9_Witness ==
    /\ \E j \in 1 .. Len(requests) : requests[j] = <<2, ITEMS_PAGE_SIZE, "error">>
    /\ Len(EmittedAt(2)) = 1
    /\ HasEntry(fg, EmittedAt(2)[1].listing)
    /\ BadSearchURL(search_urls[4])
    /\ Requested(3) /\ Requested(5)
    /\ halt = "completed"
    /\ resumed_from = None

\* C10 as stated: a run writes the checkpoint only when QuotaExceeded or
\* TimeLimitExceeded halts it, and deletes it only when it reaches the end of
\* the query list.
C10_WrittenOnlyOnQuotaOrTime ==
    /\ ckpt_op = "save" => halt \in {"quota", "time"}
    /\ ckpt_op = "clear" => halt = "completed"

\* C10 amended: a run writes the checkpoint only when its crawl ends before
\* the end of the query list -- halted by the quota or the time budget, or
\* dropped by main() once the feed cap is exceeded -- and then with the
\* query in progress; it deletes the checkpoint only when the crawl reaches
\* the end of the list; otherwise the file stays as the run found it.
C10_WrittenOnlyOnEarlyStop ==
    runs > 0 =>
        /\ ckpt_op = "save" => (halt \in {"quota", "time", "cap"} /\ checkpoint = search_urls[i])
        /\ ckpt_op = "clear" => (halt = "completed" /\ checkpoint = None)
        /\ ckpt_op = "none" => (halt = "none" /\ checkpoint = resumed_from)

\* main() broke out of its loop at the cap and the checkpoint was written
C10_Witness ==
    /\ halt = "cap"
    /\ ckpt_op = "save"
    /\ pc = "idle"
    /\ resumed_from = None
    /\ checkpoint = search_urls[i]

\* the identifiers of the entries of a feed
IdSet(entries) == {entries[n].id : n \in DOMAIN entries}

\* this run and the run before it both started without a checkpoint, on the
\* same day, and reached the end of the list; no call failed in either
RanTwice ==
    /\ pc = "merge"
    /\ prev.ran
    /\ prev.day = now
    /\ prev.resumed_from = None
    /\ prev.halt = "completed"
    /\ resumed_from = None
    /\ halt = "completed"
    /\ failures = 0

\* C11: when the crawl runs twice in succession with the same upstream data
\* and no time passing, the feed the second run writes has the same set of
\* entry identifiers as the feed the first run wrote.
C11_SecondRunSameEntrySet ==
    RanTwice => IdSet(merged_feed) = IdSet(existing_feed)

\* C12: the feed is written to a temporary path and renamed over the
\* target: while a run is under way, and after it crashed at any point of
\* the final write, the feed file holds the whole previous feed; after the
\* run wrote, it holds the whole new feed; it never holds anything else.
C12_TargetPreviousOrNew ==
    runs > 0 =>
        /\ pc # "idle" => feed = existing_feed
        /\ (pc = "idle" /\ prev.halt = "crash") => feed = existing_feed
        /\ (pc = "idle" /\ prev.halt # "crash") => (feed = merged_feed /\ feed_new = <<>>)

\* a run crashed after it wrote one of the two entries of the new feed: the
\* temporary file holds that entry, the feed file holds the previous feed
C12_Witness ==
    /\ pc = "idle"
    /\ prev.halt = "crash"
    /\ Len(merged_feed) >= 2
    /\ feed_new = SubSeq(merged_feed, 1, 1)
    /\ feed = existing_feed
    /\ existing_feed # <<>>
    /\ existing_feed # merged_feed

\* what holds of call_api's counters in every state: a request is made
\* after at most 10 failed ones; it slept 60 seconds after each failed
\* request that was not the eleventh; a response is returned as soon as a
\* request succeeds; after the eleventh failure it has raised APIException
RetryState ==
    /\ tries \in 0 .. 11
    /\ pc = "call" => tries <= 10
    /\ paused = 60 * Min(tries, 10)
    /\ pc = "items" => (tries <= 10 /\ Last(requests) = <<i, offset, "ok">>)
    /\ (tries = 11 /\ pc = "timecheck") => Last(requests) = <<i, offset, "error">>

\* a request of call_api fails with httpx.RequestError
RequestFails == pc = "call" /\ tries' = tries + 1

\* C13: within one call of call_api a request that fails with a transport
\* error is made again after a pause of 60 seconds, at most 10 times: there
\* are at most 11 requests, the first response that arrives is returned, and
\* the failure is raised only when the eleventh request in a row fails.
C13_RetriesTenTimesThenRaises ==
    /\ []RetryState
    /\ [][RequestFails =>
            IF tries' = 11
            THEN /\ pc' = "timecheck"
                 /\ requests' = Append(requests, <<i, offset, "error">>)
                 /\ paused' = paused
            ELSE /\ pc' = "call"
                 /\ requests' = requests
                 /\ paused' = paused + 60]_vars

\* eleven requests of one call failed: call_api slept ten times and raised
C13_Witness ==
    /\ tries = 11
    /\ paused = 600
    /\ pc = "timecheck"
    /\ Last(requests) = <<i, offset, "error">>

\* the entries of the listings of a log that are young enough, each at the
\* place where its listing first appears in the log
RECURSIVE Discoveries(_, _)
Discoveries(log, n) ==
    IF n = 0 THEN <<>>
    ELSE LET x == log[n].listing
         IN  IF /\ x.age_in_days <= MAX_LISTING_AGE_DAYS
                /\ \A j \in 1 .. n - 1 : log[j].listing.id # x.id
             THEN Append(Discoveries(log, n - 1), new_entry(x))
             ELSE Discoveries(log, n - 1)

\* a is b with some of its elements left out
RECURSIVE IsSubsequence(_, _)
IsSubsequence(a, b) ==
    IF a = <<>> THEN TRUE
    ELSE IF b = <<>> THEN FALSE
    ELSE IF Head(a) = Head(b) THEN IsSubsequence(Tail(a), Tail(b))
    ELSE IsSubsequence(a, Tail(b))

\* the entries of a feed after its first n
After(entries, n) == SubSeq(entries, n + 1, Len(entries))

NonNegative(n) == IF n < 0 THEN 0 ELSE n

\* the identifier of every entry is the tag prefix and digits only, and none
\* is the identifier of an entry added in this run
AllNumericAndOld(entries) ==
    \A n \in DOMAIN entries :
        /\ parse_listing_id(entries[n].id) = Tail(entries[n].id)
        /\ Tail(entries[n].id) \notin listing_ids

UnmatchedCheckpoint == resumed_from # None /\ resumed_from \notin Range(search_urls)

\* C15: a run whose checkpoint equals no query of the list goes as a run
\* without checkpoint does: it processes the queries from the first on, each
\* from its first page, and so emits the listings such a run emits.
C15_UnmatchedCheckpointIgnored ==
    UnmatchedCheckpoint => ResumesAt(1)

\* no query is twice in the list
NoDuplicates ==
    \A a, b \in Positions : a # b => search_urls[a] # search_urls[b]

\* C16: a run that resumed from a checkpoint and that the time budget
\* halts, with no quota error and no failed call, leaves a checkpoint that
\* is later in the query list than the one it resumed from.
C16_TimeHaltMovesCheckpointOn ==
    (/\ halt = "time"
     /\ failures = 0
     /\ NoDuplicates
     /\ resumed_from \in Range(search_urls))
        => FirstMatch(checkpoint) > FirstMatch(resumed_from)

\* C17: main() takes new entries until the count first exceeds
\* MAX_FEED_ENTRIES, the entry that crosses the boundary included: it adds at
\* most MAX_FEED_ENTRIES + 1 entries; once the count is above the maximum
\* the entry added last is that of the listing taken last, no listing is
\* taken after it, and no entry of the previous feed is carried over.
C17_AcceptsUntilCapExceeded ==
    /\ entry_count = Len(fg)
    /\ entry_count <= MAX_FEED_ENTRIES + 1
    /\ pc \in {"loop", "call", "items", "timecheck"} => entry_count <= MAX_FEED_ENTRIES
    /\ entry_count > MAX_FEED_ENTRIES <=> halt = "cap"
    /\ halt = "cap" =>
           /\ entry_count = MAX_FEED_ENTRIES + 1
           /\ pc \in {"merge", "idle"}
           /\ Last(fg) = new_entry(Last(emitted).listing)
           /\ Written => feed = fg

\* a run with a previous feed of two entries added MAX_FEED_ENTRIES + 1
\* entries and wrote these only
C17_Witness ==
    /\ halt = "cap"
    /\ Written
    /\ Len(prev.feed) = 2
    /\ Len(fg) = MAX_FEED_ENTRIES + 1
    /\ feed = fg
    /\ \E n \in DOMAIN prev.feed : prev.feed[n].id \notin IdSet(feed)

\* the listing identifier main() wrote into an entry identifier
ListingIdOf(entry_id) == Tail(entry_id)

\* the previous entries the merge keeps as C18 states it: each one whose
\* listing identifier was not added in this run, while the count is below
\* the maximum
RECURSIVE CarriedOver(_, _, _)
CarriedOver(entries, count, ids) ==
    IF entries = <<>> THEN <<>>
    ELSE IF ListingIdOf(Head(entries).id) \notin ids /\ count < MAX_FEED_ENTRIES
         THEN <<Head(entries)>> \o CarriedOver(Tail(entries), count + 1, ids)
         ELSE CarriedOver(Tail(entries), count, ids)

\* C18: in the merge each entry of the previous feed, in stored order, is
\* appended unchanged if and only if its listing identifier was not added
\* in this run and the count is below the maximum at that point; no
\* previous entry is dropped for another reason.
C18_CarriesAllButAddedOrOverCap ==
    Written => After(feed, Len(fg)) = CarriedOver(prev.feed, entry_count, listing_ids)

\* the step leaves the processing of a query
LeavesQuery == pc \in {"call", "items"} /\ pc' \notin {"call", "items"}

\* the time check finds the budget exceeded
TimeExceeded == pc = "timecheck" /\ halt' = "time"

\* C19: the time budget is checked after every processed query, the last
\* one included: a query is left for the time check (or by a halt), never
\* for the next query; when the budget is found exceeded after query k the
\* run is halted with the checkpoint set to query k, also when k is the last
\* query of the list, and the checkpoint is not cleared then.
C19_TimeCheckedAfterEveryQuery ==
    /\ [](halt = "time" =>
              /\ pc \in {"merge", "idle"}
              /\ ckpt_op = "save"
              /\ checkpoint = search_urls[i])
    /\ [][LeavesQuery => pc' \in {"timecheck", "merge"}]_vars
    /\ [][TimeExceeded =>
              /\ pc' = "merge"
              /\ checkpoint' = search_urls[i]
              /\ ckpt_op' = "save"]_vars
    /\ [](\A k \in Positions : (minutes /\ halts < MaxHalts /\ pc = "timecheck" /\ i = k)
                                   => ENABLED TimeLimit)

\* the budget was found exceeded after the last of three queries, all of
\* them processed: the checkpoint is the last query
C19_Witness ==
    /\ halt = "time"
    /\ pc = "idle"
    /\ Len(search_urls) = 3
    /\ i = 3
    /\ \A p \in Positions : Requested(p)
    /\ Last(requests) = <<3, offset, "ok">>
    /\ checkpoint = search_urls[3]
    /\ checkpoint # None

\* the feed cap ended the crawl of this run: the checkpoint was written and
\* holds the query in progress
CapSavesQueryInProgress ==
    halt = "cap" =>
        /\ pc \in {"merge", "idle"}
        /\ ckpt_op = "save"
        /\ checkpoint = search_urls[i]
        /\ checkpoint # None

\* this run is the one after a run whose crawl the feed cap ended
AfterCapBreak == prev.ran /\ prev.halt = "cap" /\ pc # "idle"

\* C20 as stated: when main() stops taking listings at the feed cap while
\* query k is processed, the cleanup of the crawl saves the specification of
\* query k as the checkpoint, and the next run resumes at position k.
C20_CapBreakResumesAtPosition ==
    /\ CapSavesQueryInProgress
    /\ AfterCapBreak =>
           (resumed_from = search_urls[prev.i] /\ ResumesAt(prev.i))

\* C20 amended: the same, the next run resuming at the first position of
\* the list that holds the specification of query k.
C20_CapBreakResumesAtFirstMatch ==
    /\ CapSavesQueryInProgress
    /\ AfterCapBreak =>
           (resumed_from = search_urls[prev.i]
                /\ ResumesAt(FirstMatch(search_urls[prev.i])))

\* the cap ended a run in its second query; the next run skipped the first
\* query, processed the second and reached the end of the list
C20_Witness ==
    /\ AfterCapBreak
    /\ prev.i = 2
    /\ prev.ckpt_op = "save"
    /\ resumed_from = search_urls[2]
    /\ resumed_from # search_urls[1]
    /\ Requested(2)
    /\ ~Requested(1)
    /\ halt = "completed"

====
